---- MODULE Spec2Model ----
(***************************************************************************)
(* Campaign execution and plan-quota enforcement of the WhatsApp backend:  *)
(* the campaign routes and their background dispatch function              *)
(* (src/src/routes/retarget.ts), the plan middleware                       *)
(* (src/src/middleware/planAccess.ts) and the status webhook               *)
(* (src/src/routes/whatsapp.ts).  Every awaited Prisma call is one atomic  *)
(* step at the database; handlers and background functions interleave at   *)
(* those steps, as they do on the Node event loop.                         *)
(***************************************************************************)
EXTENDS Integers, Sequences, FiniteSets, Bags, TLC

\* ---------------------------------------------------------------- bounds
\* contacts of tenant "A" a campaign of the engine specification may target
MaxContacts == 2
\* HTTP requests the clients issue per behaviour
MaxRequests == 3
\* storage faults (a Prisma call rejecting) injected per behaviour
MaxFaults == 1
\* target contacts of the end-to-end scenario (must exceed BatchSize)
MaxTargets == 6
\* the messages cap of the basic plan (seed.ts has 5000), and its contacts cap
BasicMessages == 5
BasicContacts == 2
\* largest usage count a users row starts with
MaxUsage == 6
\* largest amount of one incrementUsage call
MaxAmount == 2
\* largest timestamp of a status callback, and statuses per webhook payload
MaxTimestamp == 2
MaxStatuses == 2
\* latest date of a plan end and of the clock of an access check
MaxDate == 2
\* contacts of tenant "A" in the store the retarget filters run over
RetargetContacts == 3
\* the take of the retarget execute query (the code has 1000)
RetargetTake == 2
\* execute requests per behaviour of the retarget specification
ExecuteRequests == 2

\* HTTP requests per behaviour of the creation specification
CreateRequests == 3

\* HTTP requests per behaviour of the unknown-id specification
UnknownRequests == 2

\* HTTP requests per behaviour of the linked specification
LinkedRequests == 2

\* HTTP requests per behaviour of the metered specification
MeteredRequests == 1

\* HTTP requests per behaviour of the tenant specification
TenantRequests == 3

\* HTTP requests per behaviour of the resolver specification
ResolverRequests == 2

\* ------------------------------------------------------ program constants
\* campaign.contacts.slice(0, 5)
BatchSize == 5
\* a nullable TIMESTAMP column holding no date
NullDate == 0 - 1
\* a nullable id column holding no id
NullId == 0

NULL == "NULL"
Undefined == "undefined"
Tenants == {"A", "B"}
NoCampaign == [id |-> NullId]
NoResponse == [op |-> "none", code |-> 0]

VARIABLES
  contacts,      \* the contacts table: contact id -> [userId, phone]
  nextId,        \* id the next created campaign gets
  camp,          \* the campaigns row under observation, or NoCampaign
  rows,          \* its campaign_contacts rows: contact id -> row
  messages,      \* the messages table: a bag of message rows
  starting,      \* start requests between their findFirst and their update (a bag)
  pausing,       \* campaign ids of pause requests between read and update
  editing,       \* campaign ids of edit requests between read and update
  deleting,      \* campaign ids of delete requests between read and delete
  runs,          \* processCampaignMessages invocations (a bag of their states)
  faults,        \* storage faults still to inject
  budget,        \* HTTP requests the clients may still issue
  resp,          \* the HTTP response issued by the last step, if any
  nextWamid,     \* the provider message id the gateway hands out next
  user,          \* the users row of tenant "A": role, plan, plan end, quotaUsed
  billing,       \* billable requests between their usage check and their write (a bag)
  issued,        \* per resource, the amounts of the incrementUsage calls that returned
  wasReset,      \* a plan change or quota reset has happened
  retarget,      \* the retarget_campaigns row under observation, or NoCampaign
  executing      \* execute requests and processRetargetCampaign runs, each at
                 \* its position (a bag)

\* the tables and requests of the campaign routes
campaignVars == <<nextId, camp, rows, starting, pausing, editing, deleting, runs>>

\* the tables of the plan middleware
quotaVars == <<user, billing, issued, wasReset>>

\* the table and requests of the retarget routes
retargetVars == <<retarget, executing>>

vars ==
  <<contacts, messages, campaignVars, faults, budget, resp, nextWamid, quotaVars,
    retargetVars>>

\* ------------------------------------------------------------- helpers
Min(a, b) == IF a < b THEN a ELSE b

RECURSIVE SetToSeq(_)
\* contact ids in the order the database returns them (ascending id)
SetToSeq(S) ==
  IF S = {} THEN <<>>
  ELSE LET m == CHOOSE x \in S : \A y \in S : x <= y
       IN <<m>> \o SetToSeq(S \ {m})

Range(s) == {s[i] : i \in 1..Len(s)}

\* bags: one more copy of x, one copy of x replaced by y, every row rewritten
Put(B, x) == B (+) SetToBag({x})

Take(B, x) == B (-) SetToBag({x})

Moved(B, x, y) == Put(Take(B, x), y)

RECURSIVE SumCounts(_, _)
SumCounts(B, S) ==
  IF S = {} THEN 0
  ELSE LET x == CHOOSE x \in S : TRUE IN B[x] + SumCounts(B, S \ {x})

BagMap(B, f) ==
  [y \in {f[x] : x \in DOMAIN B} |-> SumCounts(B, {x \in DOMAIN B : f[x] = y})]

\* a lookup by id alone
FindCampaignAnyTenant(id, by) ==
  IF camp # NoCampaign /\ camp.id = id THEN camp ELSE NoCampaign

\* prisma.campaign.findFirst({ where: { id, userId } })
FindCampaign(id, by) ==
  IF camp # NoCampaign /\ camp.id = id /\ camp.userId = by THEN camp ELSE NoCampaign

\* a campaigns row with this id exists (prisma update/delete reject otherwise)
CampaignExists(id) == camp # NoCampaign /\ camp.id = id

\* a campaign_contacts row (campaignId, contactId) exists
RowExists(id, c) == CampaignExists(id) /\ c \in DOMAIN rows

\* ---------------------------------------------------------------- Init
\* no campaign, message or request exists yet
Empty ==
  /\ nextId = 1
  /\ camp = NoCampaign
  /\ rows = <<>>
  /\ messages = EmptyBag
  /\ starting = EmptyBag
  /\ pausing = {}
  /\ editing = {}
  /\ deleting = {}
  /\ runs = EmptyBag
  /\ resp = NoResponse
  /\ nextWamid = 1
  /\ billing = EmptyBag
  /\ wasReset = FALSE
  /\ retarget = NoCampaign
  /\ executing = EmptyBag

\* tenant "A" owns contacts 1..n; contact 0 belongs to tenant "B"
ContactStore(n) ==
  [c \in 0..n |-> [userId |-> IF c = 0 THEN "B" ELSE "A", phone |-> c]]

\* the users row of tenant "A" with this plan and this messages usage
UserRow(planId, used) ==
  [role |-> "USER", planId |-> planId, planEndDate |-> NullDate,
   quotaUsed |-> IF used = 0 THEN <<>> ELSE [r \in {"messages"} |-> used]]

Init ==
  /\ Empty
  /\ contacts = ContactStore(MaxContacts)
  /\ faults = MaxFaults
  /\ budget = MaxRequests
  /\ user = UserRow("basic", 0)
  /\ issued = [r \in {"messages", "contacts"} |-> 0]

\* ------------------------------------------------ POST / (create campaign)
NewCampaign(id, by, scheduledAt, n) ==
  [id |-> id, userId |-> by, name |-> "n1", scheduledAt |-> scheduledAt,
   status |-> IF scheduledAt # NULL THEN "SCHEDULED" ELSE "DRAFT",
   startedAt |-> NULL, completedAt |-> NULL, totalContacts |-> n,
   sentCount |-> 0, deliveredCount |-> 0, readCount |-> 0, failedCount |-> 0]

NewRow == [status |-> "PENDING", sentAt |-> NULL, failedAt |-> NULL, errorMessage |-> NULL]

\* a lookup of the contacts by id alone
AnyContacts(by, contactIds) == {c \in Range(contactIds) : c \in DOMAIN contacts}

\* prisma.contact.findMany({ where: { id: { in: contactIds }, userId } })
OwnContacts(by, contactIds) ==
  {c \in Range(contactIds) : c \in DOMAIN contacts /\ contacts[c].userId = by}

CreateCampaign(by, accountFound, templateOk, contactIds, scheduledAt) ==
  LET found == OwnContacts(by, contactIds)
  IN
  /\ camp = NoCampaign
  /\ UNCHANGED <<contacts, messages, starting, pausing, editing, deleting, runs>>
  /\ IF ~accountFound
     THEN /\ resp' = [op |-> "create", code |-> 404]
          /\ UNCHANGED <<nextId, camp, rows, faults>>
     ELSE IF ~templateOk
     THEN /\ resp' = [op |-> "create", code |-> 404]
          /\ UNCHANGED <<nextId, camp, rows, faults>>
     ELSE IF Cardinality(found) # Len(contactIds)
     THEN /\ resp' = [op |-> "create", code |-> 400]
          /\ UNCHANGED <<nextId, camp, rows, faults>>
     ELSE /\ camp' = NewCampaign(nextId, by, scheduledAt, Cardinality(found))
          /\ nextId' = nextId + 1
          /\ \/ /\ rows' = [c \in found |-> NewRow]
                /\ resp' = [op |-> "create", code |-> 201]
                /\ UNCHANGED faults
             \/ \* createMany rejects: the campaigns row stays, without rows
                /\ faults > 0
                /\ faults' = faults - 1
                /\ rows' = <<>>
                /\ resp' = [op |-> "create", code |-> 500]

\* ------------------------------------------------------ PUT /:id (update)
\* the statuses the update handler refuses to edit
EditLocked(status) == status = "RUNNING" \/ status = "COMPLETED"

EditRead(by, id) ==
  LET campaign == FindCampaign(id, by) IN
  /\ UNCHANGED <<contacts, nextId, camp, rows, messages, starting, pausing,
                 deleting, runs, faults>>
  /\ IF campaign = NoCampaign
     THEN /\ resp' = [op |-> "edit", code |-> 404]
          /\ UNCHANGED editing
     ELSE IF EditLocked(campaign.status)
     THEN /\ resp' = [op |-> "edit", code |-> 400]
          /\ UNCHANGED editing
     ELSE /\ id \notin editing
          /\ editing' = editing \cup {id}
          /\ resp' = NoResponse

\* prisma.campaign.update({ where: { id }, data: { name, description,
\* scheduledAt, status } }); an undefined name leaves the column as it is
EditCommit(id, name, scheduledAt) ==
  /\ id \in editing
  /\ editing' = editing \ {id}
  /\ UNCHANGED <<contacts, nextId, rows, messages, starting, pausing,
                 deleting, runs, faults>>
  /\ IF CampaignExists(id)
     THEN /\ camp' = [camp EXCEPT
                        !.name = IF name = Undefined THEN @ ELSE name,
                        !.scheduledAt = scheduledAt,
                        !.status = IF scheduledAt # NULL THEN "SCHEDULED" ELSE "DRAFT"]
          /\ resp' = [op |-> "edit", code |-> 200]
     ELSE /\ UNCHANGED camp
          /\ resp' = [op |-> "edit", code |-> 500]

\* ------------------------------------------------------- POST /:id/start
\* a guard that lets a RUNNING campaign be started again
CanStartReentrant(status) == status \in {"DRAFT", "SCHEDULED", "RUNNING"}

\* the statuses from which the start handler proceeds
CanStart(status) == status = "DRAFT" \/ status = "SCHEDULED"

\* campaign.contacts.slice(0, 5)
Slice(targets) == SubSeq(targets, 1, Min(Len(targets), BatchSize))

StartRead(by, id) ==
  LET campaign == FindCampaign(id, by) IN
  /\ UNCHANGED <<contacts, nextId, camp, rows, messages, pausing, editing,
                 deleting, runs, faults>>
  /\ IF campaign = NoCampaign
     THEN /\ resp' = [op |-> "start", code |-> 404]
          /\ UNCHANGED starting
     ELSE IF ~CanStart(campaign.status)
     THEN /\ resp' = [op |-> "start", code |-> 400]
          /\ UNCHANGED starting
     ELSE \* include: { contacts }: the rows as they are at the read
          /\ starting' = Put(starting,
                [campaignId |-> id, contacts |-> SetToSeq(DOMAIN rows)])
          /\ resp' = NoResponse

\* a start that awaits processCampaignMessages: the loop is over when the
\* handler goes on
NewRunAwaited(s) ==
  [campaignId |-> s.campaignId, targets |-> Slice(s.contacts),
   i |-> Min(Len(s.contacts), BatchSize), pc |-> "count", pendingCount |-> 0]

\* processCampaignMessages runs up to its first await inside the handler
NewRun(s) ==
  [campaignId |-> s.campaignId, targets |-> Slice(s.contacts), i |-> 1,
   pc |-> IF Len(s.contacts) = 0 THEN "count" ELSE "create", pendingCount |-> 0]

StartCommit(s) ==
  /\ BagIn(s, starting)
  /\ starting' = Take(starting, s)
  /\ UNCHANGED <<contacts, nextId, rows, messages, pausing, editing,
                 deleting, faults>>
  /\ IF CampaignExists(s.campaignId)
     THEN /\ camp' = [camp EXCEPT !.status = "RUNNING", !.startedAt = "now"]
          /\ runs' = Put(runs, NewRun(s))
          /\ resp' = [op |-> "start", code |-> 200]
     ELSE /\ UNCHANGED <<camp, runs>>
          /\ resp' = [op |-> "start", code |-> 500]

\* ------------------------------------------------------- POST /:id/pause
\* a guard that refuses only a campaign already paused
CanPauseUnlessPaused(status) == status # "PAUSED"

\* the status from which the pause handler proceeds
CanPause(status) == status = "RUNNING"

PauseRead(by, id) ==
  LET campaign == FindCampaign(id, by) IN
  /\ UNCHANGED <<contacts, nextId, camp, rows, messages, starting, editing,
                 deleting, runs, faults>>
  /\ IF campaign = NoCampaign
     THEN /\ resp' = [op |-> "pause", code |-> 404]
          /\ UNCHANGED pausing
     ELSE IF ~CanPause(campaign.status)
     THEN /\ resp' = [op |-> "pause", code |-> 400]
          /\ UNCHANGED pausing
     ELSE /\ id \notin pausing
          /\ pausing' = pausing \cup {id}
          /\ resp' = NoResponse

PauseCommit(id) ==
  /\ id \in pausing
  /\ pausing' = pausing \ {id}
  /\ UNCHANGED <<contacts, nextId, rows, messages, starting, editing,
                 deleting, runs, faults>>
  /\ IF CampaignExists(id)
     THEN /\ camp' = [camp EXCEPT !.status = "PAUSED"]
          /\ resp' = [op |-> "pause", code |-> 200]
     ELSE /\ UNCHANGED camp
          /\ resp' = [op |-> "pause", code |-> 500]

\* ------------------------------------------------------------ GET /:id
\* the campaign with its campaign_contacts rows, or 404
GetCampaign(by, id) ==
  LET campaign == FindCampaign(id, by) IN
  /\ UNCHANGED <<contacts, messages, campaignVars, faults>>
  /\ resp' = IF campaign = NoCampaign
             THEN [op |-> "get", code |-> 404]
             ELSE [op |-> "get", code |-> 200, campaign |-> campaign,
                   contacts |-> rows]

\* ----------------------------------------------------------- DELETE /:id
\* a guard that locks nothing
DeleteLockedNever(status) == FALSE

\* the status in which the delete handler refuses
DeleteLocked(status) == status = "RUNNING"

DeleteRead(by, id) ==
  LET campaign == FindCampaign(id, by) IN
  /\ UNCHANGED <<contacts, nextId, camp, rows, messages, starting, pausing,
                 editing, runs, faults>>
  /\ IF campaign = NoCampaign
     THEN /\ resp' = [op |-> "delete", code |-> 404]
          /\ UNCHANGED deleting
     ELSE IF DeleteLocked(campaign.status)
     THEN /\ resp' = [op |-> "delete", code |-> 400]
          /\ UNCHANGED deleting
     ELSE /\ id \notin deleting
          /\ deleting' = deleting \cup {id}
          /\ resp' = NoResponse

\* campaign_contacts rows cascade; messages.campaignId is set NULL
DeleteCommit(id) ==
  /\ id \in deleting
  /\ deleting' = deleting \ {id}
  /\ UNCHANGED <<contacts, nextId, starting, pausing, editing, runs, faults>>
  /\ IF CampaignExists(id)
     THEN /\ camp' = NoCampaign
          /\ rows' = <<>>
          /\ LET Unlink(m) == IF m.campaignId = id THEN [m EXCEPT !.campaignId = NullId] ELSE m
             IN messages' = BagMap(messages, [m \in DOMAIN messages |-> Unlink(m)])
          /\ resp' = [op |-> "delete", code |-> 200]
     ELSE /\ UNCHANGED <<camp, rows, messages>>
          /\ resp' = [op |-> "delete", code |-> 500]

\* ------------------------------------------- processCampaignMessages
\* the message row one loop iteration inserts (no provider message id)
CampaignMessage(run, c) ==
  [userId |-> camp.userId, contactId |-> c, campaignId |-> run.campaignId,
   direction |-> "OUTBOUND", status |-> "SENT", whatsappMessageId |-> NullId,
   deliveredAt |-> NullDate, readAt |-> NullDate, errorMessage |-> NULL]

\* a loop that is left after its first element
NextTargetStops(run) == [run EXCEPT !.pc = "count"]

\* the for loop moves to its next element, or leaves the loop for the count
NextTarget(run) ==
  IF run.i < Len(run.targets)
  THEN [run EXCEPT !.i = @ + 1, !.pc = "create"]
  ELSE [run EXCEPT !.pc = "count"]

\* the invocation has returned (or its promise has rejected)
Ended(run, how) == [run EXCEPT !.pc = how, !.i = 0, !.pendingCount = 0]

RunEnded(run) == run.pc \in {"done", "failed", "crashed"}

\* prisma.message.create: the send of this code; it rejects when the gateway
\* step fails or when the campaign it references is gone
W_Create(run) ==
  /\ BagIn(run, runs)
  /\ run.pc = "create"
  /\ resp' = NoResponse
  /\ UNCHANGED <<contacts, nextId, camp, rows, starting, pausing, editing,
                 deleting, faults>>
  /\ \/ /\ CampaignExists(run.campaignId)
        /\ messages' = Put(messages, CampaignMessage(run, run.targets[run.i]))
        /\ runs' = Moved(runs, run, [run EXCEPT !.pc = "markSent"])
     \/ /\ UNCHANGED messages
        /\ runs' = Moved(runs, run, [run EXCEPT !.pc = "markFailed"])

\* prisma.campaignContact.update({ data: { status: 'SENT', sentAt } })
W_MarkSent(run) ==
  LET c == run.targets[run.i] IN
  /\ BagIn(run, runs)
  /\ run.pc = "markSent"
  /\ resp' = NoResponse
  /\ UNCHANGED <<contacts, nextId, camp, messages, starting, pausing, editing,
                 deleting>>
  /\ \/ /\ RowExists(run.campaignId, c)
        /\ rows' = [rows EXCEPT ![c].status = "SENT", ![c].sentAt = "now"]
        /\ runs' = Moved(runs, run, [run EXCEPT !.pc = "incSent"])
        /\ UNCHANGED faults
     \/ /\ ~RowExists(run.campaignId, c)
        /\ runs' = Moved(runs, run, [run EXCEPT !.pc = "markFailed"])
        /\ UNCHANGED <<rows, faults>>
     \/ /\ faults > 0
        /\ faults' = faults - 1
        /\ runs' = Moved(runs, run, [run EXCEPT !.pc = "markFailed"])
        /\ UNCHANGED rows

\* prisma.campaign.update({ data: { sentCount: { increment: 1 } } })
W_IncSent(run) ==
  /\ BagIn(run, runs)
  /\ run.pc = "incSent"
  /\ resp' = NoResponse
  /\ UNCHANGED <<contacts, nextId, rows, messages, starting, pausing, editing,
                 deleting>>
  /\ \/ /\ CampaignExists(run.campaignId)
        /\ camp' = [camp EXCEPT !.sentCount = @ + 1]
        /\ runs' = Moved(runs, run, NextTarget(run))
        /\ UNCHANGED faults
     \/ /\ ~CampaignExists(run.campaignId)
        /\ runs' = Moved(runs, run, [run EXCEPT !.pc = "markFailed"])
        /\ UNCHANGED <<camp, faults>>
     \/ /\ faults > 0
        /\ faults' = faults - 1
        /\ runs' = Moved(runs, run, [run EXCEPT !.pc = "markFailed"])
        /\ UNCHANGED camp

\* inner catch: prisma.campaignContact.update({ data: { status: 'FAILED',
\* failedAt, errorMessage } }); a rejection here leaves the loop
W_MarkFailed(run) ==
  LET c == run.targets[run.i] IN
  /\ BagIn(run, runs)
  /\ run.pc = "markFailed"
  /\ resp' = NoResponse
  /\ UNCHANGED <<contacts, nextId, camp, messages, starting, pausing, editing,
                 deleting>>
  /\ \/ /\ RowExists(run.campaignId, c)
        /\ rows' = [rows EXCEPT ![c].status = "FAILED", ![c].failedAt = "now",
                                ![c].errorMessage = "Failed to send message"]
        /\ runs' = Moved(runs, run, [run EXCEPT !.pc = "incFailed"])
        /\ UNCHANGED faults
     \/ /\ ~RowExists(run.campaignId, c)
        /\ runs' = Moved(runs, run, [run EXCEPT !.pc = "fail"])
        /\ UNCHANGED <<rows, faults>>
     \/ /\ faults > 0
        /\ faults' = faults - 1
        /\ runs' = Moved(runs, run, [run EXCEPT !.pc = "fail"])
        /\ UNCHANGED rows

\* inner catch: prisma.campaign.update({ data: { failedCount: { increment: 1 } } })
W_IncFailed(run) ==
  /\ BagIn(run, runs)
  /\ run.pc = "incFailed"
  /\ resp' = NoResponse
  /\ UNCHANGED <<contacts, nextId, rows, messages, starting, pausing, editing,
                 deleting>>
  /\ \/ /\ CampaignExists(run.campaignId)
        /\ camp' = [camp EXCEPT !.failedCount = @ + 1]
        /\ runs' = Moved(runs, run, NextTarget(run))
        /\ UNCHANGED faults
     \/ /\ ~CampaignExists(run.campaignId)
        /\ runs' = Moved(runs, run, [run EXCEPT !.pc = "fail"])
        /\ UNCHANGED <<camp, faults>>
     \/ /\ faults > 0
        /\ faults' = faults - 1
        /\ runs' = Moved(runs, run, [run EXCEPT !.pc = "fail"])
        /\ UNCHANGED camp

\* a completion that does not look at the rows
PendingCountZero(id) == 0

\* prisma.campaignContact.count({ where: { campaignId, status: 'PENDING' } })
PendingCount(id) ==
  IF CampaignExists(id)
  THEN Cardinality({c \in DOMAIN rows : rows[c].status = "PENDING"})
  ELSE 0

W_Count(run) ==
  /\ BagIn(run, runs)
  /\ run.pc = "count"
  /\ resp' = NoResponse
  /\ UNCHANGED <<contacts, nextId, camp, rows, messages, starting, pausing,
                 editing, deleting>>
  /\ \/ /\ runs' = Moved(runs, run,
                      IF PendingCount(run.campaignId) = 0
                      THEN [run EXCEPT !.pc = "complete"]
                      ELSE Ended(run, "done"))
        /\ UNCHANGED faults
     \/ /\ faults > 0
        /\ faults' = faults - 1
        /\ runs' = Moved(runs, run, [run EXCEPT !.pc = "fail"])

\* prisma.campaign.update({ data: { status: 'COMPLETED', completedAt } })
W_Complete(run) ==
  /\ BagIn(run, runs)
  /\ run.pc = "complete"
  /\ resp' = NoResponse
  /\ UNCHANGED <<contacts, nextId, rows, messages, starting, pausing, editing,
                 deleting>>
  /\ \/ /\ CampaignExists(run.campaignId)
        /\ camp' = [camp EXCEPT !.status = "COMPLETED", !.completedAt = "now"]
        /\ runs' = Moved(runs, run, Ended(run, "done"))
        /\ UNCHANGED faults
     \/ /\ ~CampaignExists(run.campaignId)
        /\ runs' = Moved(runs, run, [run EXCEPT !.pc = "fail"])
        /\ UNCHANGED <<camp, faults>>
     \/ /\ faults > 0
        /\ faults' = faults - 1
        /\ runs' = Moved(runs, run, [run EXCEPT !.pc = "fail"])
        /\ UNCHANGED camp

\* an outer catch that only logs
FailedKeepsStatus(campaign) == campaign

\* data: { status: 'FAILED' }
Failed(campaign) == [campaign EXCEPT !.status = "FAILED"]

\* outer catch: prisma.campaign.update({ data: { status: 'FAILED' } }); a
\* rejection here is not caught by anything
W_Fail(run) ==
  /\ BagIn(run, runs)
  /\ run.pc = "fail"
  /\ resp' = NoResponse
  /\ UNCHANGED <<contacts, nextId, rows, messages, starting, pausing, editing,
                 deleting>>
  /\ \/ /\ CampaignExists(run.campaignId)
        /\ camp' = Failed(camp)
        /\ runs' = Moved(runs, run, Ended(run, "failed"))
        /\ UNCHANGED faults
     \/ /\ ~CampaignExists(run.campaignId)
        /\ runs' = Moved(runs, run, Ended(run, "crashed"))
        /\ UNCHANGED <<camp, faults>>
     \/ /\ faults > 0
        /\ faults' = faults - 1
        /\ runs' = Moved(runs, run, Ended(run, "crashed"))
        /\ UNCHANGED camp

\* ------------------------------------------------ POST /send-message
\* the message row the send-message handler inserts
DirectMessage(by, c, wamid) ==
  [userId |-> by, contactId |-> c, campaignId |-> NullId,
   direction |-> "OUTBOUND", status |-> "SENT", whatsappMessageId |-> wamid,
   deliveredAt |-> NullDate, readAt |-> NullDate, errorMessage |-> NULL]

\* findFirst({ where: { userId, phone: to } }), else create the contact;
\* then the gateway call, then prisma.message.create
SendMessage(by, accountFound, to, gatewayOk) ==
  LET known == {c \in DOMAIN contacts : contacts[c].userId = by /\ contacts[c].phone = to}
      fresh == 1 + CHOOSE k \in DOMAIN contacts : \A j \in DOMAIN contacts : j <= k
      c == IF known = {} THEN fresh ELSE CHOOSE k \in known : TRUE
      store == IF known = {}
               THEN [k \in DOMAIN contacts \cup {fresh} |->
                       IF k = fresh THEN [userId |-> by, phone |-> to] ELSE contacts[k]]
               ELSE contacts
  IN
  /\ UNCHANGED <<campaignVars, retargetVars, faults, quotaVars>>
  /\ IF ~accountFound
     THEN /\ resp' = [op |-> "send", code |-> 404]
          /\ UNCHANGED <<contacts, messages, nextWamid>>
     ELSE /\ contacts' = store
          /\ IF gatewayOk
             THEN /\ messages' = Put(messages, DirectMessage(by, c, nextWamid))
                  /\ nextWamid' = nextWamid + 1
                  /\ resp' = [op |-> "send", code |-> 200]
             ELSE /\ resp' = [op |-> "send", code |-> 400]
                  /\ UNCHANGED <<messages, nextWamid>>

\* --------------------------------------- POST /webhook, handleMessageStatus
\* new Date(parseInt(timestamp) * 1000)
ToDate(timestamp) == timestamp * 1000

\* the row after prisma.message.updateMany({ data: updateData })
ApplyStatus(m, st) ==
  CASE st.status = "delivered" ->
         [m EXCEPT !.status = "DELIVERED", !.deliveredAt = ToDate(st.timestamp)]
    [] st.status = "read" ->
         [m EXCEPT !.status = "READ", !.readAt = ToDate(st.timestamp)]
    [] st.status = "failed" ->
         [m EXCEPT !.status = "FAILED",
                   !.errorMessage = IF st.title = Undefined THEN "Message failed" ELSE st.title]
    [] OTHER -> m

\* an updateMany whose where clause selects every message
HandleMessageStatusAll(msgs, st) ==
  BagMap(msgs, [m \in DOMAIN msgs |-> ApplyStatus(m, st)])

\* updateMany({ where: { whatsappMessageId: id } })
HandleMessageStatus(msgs, st) ==
  LET Update(m) == IF m.whatsappMessageId = st.id THEN ApplyStatus(m, st) ELSE m
  IN BagMap(msgs, [m \in DOMAIN msgs |-> Update(m)])

RECURSIVE HandleStatuses(_, _)
\* for (const status of statuses) await handleMessageStatus(status)
HandleStatuses(msgs, statuses) ==
  IF statuses = <<>> THEN msgs
  ELSE HandleStatuses(HandleMessageStatus(msgs, Head(statuses)), Tail(statuses))

\* verdict: what the payload and signature checks find before the loop
Webhook(verdict, statuses) ==
  /\ UNCHANGED <<contacts, campaignVars, retargetVars, faults, nextWamid, quotaVars>>
  /\ IF verdict = "nopayload"
     THEN /\ resp' = [op |-> "webhook", code |-> 400]
          /\ UNCHANGED messages
     ELSE IF verdict \in {"noaccount", "badsignature"}
     THEN /\ resp' = [op |-> "webhook", code |-> 403]
          /\ UNCHANGED messages
     ELSE /\ messages' = HandleStatuses(messages, statuses)
          /\ resp' = [op |-> "webhook", code |-> 200]

\* ------------------------------------------------ plans and usage
Resources == {"messages", "contacts"}

Unlimited == 0 - 1

\* the plans table: the seeded tiers, and one created through the admin
\* route with a limits object that has no messages entry
Plans ==
  [basic |-> [features |-> {"campaigns", "retargeting"},
              limits |-> [messages |-> BasicMessages, contacts |-> BasicContacts]],
   enterprise |-> [features |-> {"campaigns", "retargeting", "forms"},
                   limits |-> [messages |-> Unlimited, contacts |-> Unlimited]],
   custom |-> [features |-> {"campaigns"},
               limits |-> [contacts |-> BasicContacts]]]

PlanIds == DOMAIN Plans

\* prisma.user.findUnique({ where: { id } }): only tenant "A" has a users row here
NoUser == [role |-> "none"]

FindUser(id) == IF id = "A" THEN user ELSE NoUser

\* quotaUsed[resource] || 0
Used(quotaUsed, resource) ==
  IF resource \in DOMAIN quotaUsed THEN quotaUsed[resource] ELSE 0

\* planLimits[resource]: a missing entry reads undefined
Limit(limits, resource) ==
  IF resource \in DOMAIN limits THEN limits[resource] ELSE Undefined

\* a guard that reads a missing entry as a limit of 0 (limit || 0)
LimitReachedMissingIsZero(limits, resource, used) ==
  \/ resource \notin DOMAIN limits
  \/ /\ limits[resource] # Unlimited
     /\ used >= limits[resource]

\* a guard that refuses only above the limit (used > limit)
LimitReachedStrict(limits, resource, used) ==
  /\ resource \in DOMAIN limits
  /\ limits[resource] # Unlimited
  /\ used > limits[resource]

\* a guard without the -1 sentinel (used >= limit alone)
LimitReachedNoSentinel(limits, resource, used) ==
  /\ resource \in DOMAIN limits
  /\ used >= limits[resource]

\* limit !== -1 && used >= limit; a missing entry reads undefined, and no
\* number is >= undefined
LimitReached(limits, resource, used) ==
  /\ resource \in DOMAIN limits
  /\ limits[resource] # Unlimited
  /\ used >= limits[resource]

\* the middleware checkUsageLimit(resource), up to its response or next()
CheckUsageLimit(by, resource) ==
  LET u == FindUser(by) IN
  /\ UNCHANGED <<contacts, messages, campaignVars, retargetVars, faults, nextWamid, user, issued, wasReset>>
  /\ IF u = NoUser
     THEN /\ resp' = [op |-> "checkUsage", code |-> 403, error |-> "No active plan"]
          /\ UNCHANGED billing
     ELSE IF u.planId = NULL
     THEN /\ resp' = [op |-> "checkUsage", code |-> 403, error |-> "No active plan"]
          /\ UNCHANGED billing
     ELSE LET limits == Plans[u.planId].limits
              used == Used(u.quotaUsed, resource)
          IN IF LimitReached(limits, resource, used)
             THEN /\ resp' = [op |-> "checkUsage", code |-> 403,
                              error |-> "Usage limit exceeded", resource |-> resource,
                              limit |-> Limit(limits, resource), used |-> used,
                              upgradeRequired |-> TRUE]
                  /\ UNCHANGED billing
             ELSE /\ billing' = Put(billing, [pc |-> "admitted", userId |-> by,
                                              resource |-> resource])
                  /\ resp' = NoResponse

\* quotaUsed[resource] = (quotaUsed[resource] || 0) + amount, on the copy read
Incremented(quotaUsed, resource, amount) ==
  [r \in DOMAIN quotaUsed \cup {resource} |->
     IF r = resource THEN Used(quotaUsed, resource) + amount ELSE quotaUsed[r]]

\* incrementUsage up to its update: findUnique({ select: { quotaUsed } })
IncrementRead(job, amount) ==
  LET u == FindUser(job.userId) IN
  /\ BagIn(job, billing)
  /\ job.pc = "admitted"
  /\ resp' = NoResponse
  /\ UNCHANGED <<contacts, messages, campaignVars, retargetVars, nextWamid, user, issued, wasReset>>
  /\ \/ /\ u # NoUser
        /\ billing' = Moved(billing, job,
                            [pc |-> "write", userId |-> job.userId,
                             resource |-> job.resource, amount |-> amount,
                             quotaUsed |-> Incremented(u.quotaUsed, job.resource, amount)])
        /\ UNCHANGED faults
     \/ \* the read rejects: caught and logged
        /\ faults > 0
        /\ faults' = faults - 1
        /\ billing' = Take(billing, job)

\* prisma.user.update({ data: { quotaUsed } }): the whole map is written
IncrementWrite(job) ==
  /\ BagIn(job, billing)
  /\ job.pc = "write"
  /\ resp' = NoResponse
  /\ billing' = Take(billing, job)
  /\ UNCHANGED <<contacts, messages, campaignVars, retargetVars, nextWamid, wasReset>>
  /\ \/ /\ user' = [user EXCEPT !.quotaUsed = job.quotaUsed]
        /\ issued' = [issued EXCEPT ![job.resource] = @ + job.amount]
        /\ UNCHANGED faults
     \/ \* the update rejects: caught and logged
        /\ faults > 0
        /\ faults' = faults - 1
        /\ UNCHANGED <<user, issued>>

\* a plan that counts as expired on its end date already
ExpiredOnEndDate(planEndDate, now) == planEndDate # NullDate /\ planEndDate <= now

\* user.planEndDate && user.planEndDate < new Date()
Expired(planEndDate, now) == planEndDate # NullDate /\ planEndDate < now

\* the middleware checkPlanAccess(feature), up to its response or next();
\* now is the clock's reading at the check
CheckPlanAccess(by, feature, now) ==
  LET u == FindUser(by)
      Grant == /\ billing' = Put(billing, [pc |-> "granted", userId |-> by,
                                           feature |-> feature, at |-> now])
               /\ resp' = NoResponse
  IN
  /\ UNCHANGED <<contacts, messages, campaignVars, retargetVars, nextWamid, user, issued, wasReset>>
  /\ \/ /\ UNCHANGED faults
        /\ IF u = NoUser
           THEN /\ resp' = [op |-> "checkAccess", code |-> 401, error |-> "User not found"]
                /\ UNCHANGED billing
           ELSE IF u.role = "SUPER_ADMIN"
           THEN Grant
           ELSE IF u.planId = NULL
           THEN /\ resp' = [op |-> "checkAccess", code |-> 403, error |-> "No active plan",
                            feature |-> feature, upgradeRequired |-> TRUE]
                /\ UNCHANGED billing
           ELSE IF feature \notin Plans[u.planId].features
           THEN /\ resp' = [op |-> "checkAccess", code |-> 403,
                            error |-> "Feature not available in your plan",
                            feature |-> feature, currentPlan |-> u.planId,
                            upgradeRequired |-> TRUE]
                /\ UNCHANGED billing
           ELSE IF Expired(u.planEndDate, now)
           THEN /\ resp' = [op |-> "checkAccess", code |-> 403, error |-> "Plan expired",
                            expiredAt |-> u.planEndDate,
                            at |-> now,    \* the clock's reading; not in the JSON body
                            renewalRequired |-> TRUE]
                /\ UNCHANGED billing
           ELSE Grant
     \/ \* the findUnique rejects: caught, 500
        /\ faults > 0
        /\ faults' = faults - 1
        /\ resp' = [op |-> "checkAccess", code |-> 500,
                    error |-> "Failed to check plan access"]
        /\ UNCHANGED billing

\* a reset that clears the messages counter only
ClearedMessagesOnly(quotaUsed) ==
  [r \in DOMAIN quotaUsed \ {"messages"} |-> quotaUsed[r]]

\* quotaUsed: {}
Cleared(quotaUsed) == <<>>

\* PUT /:id/plan: quotaUsed: {} together with the new plan
ChangePlan(id, planId, planEndDate) ==
  /\ UNCHANGED <<contacts, messages, campaignVars, retargetVars, faults, nextWamid, billing, issued>>
  /\ IF FindUser(id) = NoUser \/ planId \notin PlanIds
     THEN /\ resp' = [op |-> "plan", code |-> 404]
          /\ UNCHANGED <<user, wasReset>>
     ELSE /\ user' = [user EXCEPT !.planId = planId, !.planEndDate = planEndDate,
                                  !.quotaUsed = Cleared(@)]
          /\ wasReset' = TRUE
          /\ resp' = [op |-> "plan", code |-> 200]

\* POST /:id/reset-quota: update({ data: { quotaUsed: {} } })
ResetQuota(id) ==
  /\ UNCHANGED <<contacts, messages, campaignVars, retargetVars, faults, nextWamid, billing, issued>>
  /\ IF FindUser(id) = NoUser
     THEN /\ resp' = [op |-> "reset", code |-> 500]
          /\ UNCHANGED <<user, wasReset>>
     ELSE /\ user' = [user EXCEPT !.quotaUsed = Cleared(@)]
          /\ wasReset' = TRUE
          /\ resp' = [op |-> "reset", code |-> 200]

\* -------------------------------------------------- the retarget routes
\* tags: { some: { tag: { name: { in: filters.tags } } } }, with all-of
\* instead of any-of
TagMatchAll(tags, wanted) == \A t \in Range(wanted) : t \in tags

\* tags: { some: { tag: { name: { in: filters.tags } } } }
TagMatch(tags, wanted) == \E t \in Range(wanted) : t \in tags

\* contactWhere as both handlers build it from the filters: a falsy or
\* missing field adds no condition; lt is false on a NULL lastMessageAt
Matches(contact, by, filters) ==
  /\ contact.userId = by
  /\ filters.unread => contact.isUnread
  /\ filters.noReply => ~contact.hasReplied
  /\ filters.clicked => contact.clicks > 0
  /\ Len(filters.tags) > 0 => TagMatch(contact.tags, filters.tags)
  /\ filters.lastMessageBefore # NullDate
       => /\ contact.lastMessageAt # NullDate
          /\ contact.lastMessageAt < filters.lastMessageBefore
  /\ filters.source # NULL => contact.source = filters.source

\* the contacts rows the where clause selects
Matching(by, filters) ==
  {c \in DOMAIN contacts : Matches(contacts[c], by, filters)}

\* POST /: prisma.contact.count, then prisma.retargetCampaign.create
\* the row prisma.retargetCampaign.create stores: status 'draft', sentCount 0
DraftRow(by, filters, targetCount) ==
  [id |-> 1, userId |-> by, filters |-> filters, targetCount |-> targetCount,
   sentCount |-> 0, status |-> "draft"]

RetargetCreate(by, filters) ==
  /\ retarget = NoCampaign
  /\ UNCHANGED <<contacts, messages, campaignVars, nextWamid, quotaVars, executing>>
  /\ \/ /\ retarget' = DraftRow(by, filters, Cardinality(Matching(by, filters)))
        /\ resp' = [op |-> "retargetCreate", code |-> 201]
        /\ UNCHANGED faults
     \/ \* a Prisma call rejects: caught, 500
        /\ faults > 0
        /\ faults' = faults - 1
        /\ resp' = [op |-> "retargetCreate", code |-> 500]
        /\ UNCHANGED retarget

\* prisma.retargetCampaign.findFirst({ where: { id, userId } })
FindRetarget(id, by) ==
  IF retarget # NoCampaign /\ retarget.id = id /\ retarget.userId = by
  THEN retarget ELSE NoCampaign

\* POST /:id/execute up to its status guard
ExecuteRead(by, id) ==
  LET campaign == FindRetarget(id, by) IN
  /\ UNCHANGED <<contacts, messages, campaignVars, nextWamid, quotaVars, retarget, faults>>
  /\ IF campaign = NoCampaign
     THEN /\ resp' = [op |-> "execute", code |-> 404]
          /\ UNCHANGED executing
     ELSE IF campaign.status # "draft"
     THEN /\ resp' = [op |-> "execute", code |-> 400]
          /\ UNCHANGED executing
     ELSE /\ executing' = Put(executing, [pc |-> "resolve", campaign |-> campaign])
          /\ resp' = NoResponse

\* a findMany without take
TakenAll(matching) == {matching}

\* take: 1000: the sets of rows a findMany of these matching rows may return
Taken(matching) ==
  {taken \in SUBSET matching :
     Cardinality(taken) = Min(Cardinality(matching), RetargetTake)}

\* prisma.contact.findMany({ where: contactWhere, take }): without an orderBy
\* the database picks which rows fill the take
ExecuteResolve(job) ==
  LET matching == Matching(job.campaign.userId, job.campaign.filters) IN
  /\ BagIn(job, executing)
  /\ job.pc = "resolve"
  /\ UNCHANGED <<contacts, messages, campaignVars, nextWamid, quotaVars, retarget>>
  /\ \/ /\ \E taken \in Taken(matching) :
             /\ executing' = Moved(executing, job,
                                   [pc |-> "update", campaign |-> job.campaign,
                                    contacts |-> SetToSeq(taken)])
        /\ resp' = NoResponse
        /\ UNCHANGED faults
     \/ \* the findMany rejects: caught, 500
        /\ faults > 0
        /\ faults' = faults - 1
        /\ executing' = Take(executing, job)
        /\ resp' = [op |-> "execute", code |-> 500]

\* processRetargetCampaign(campaign, contacts) up to its first await
NewRetargetRun(job) ==
  [pc |-> IF Len(job.contacts) = 0 THEN "finish" ELSE "send",
   campaign |-> job.campaign, contacts |-> job.contacts, i |-> 1, sentCount |-> 0]

\* prisma.retargetCampaign.update({ status: 'running', targetCount }), the
\* launch of the background run and the response
ExecuteUpdate(job) ==
  /\ BagIn(job, executing)
  /\ job.pc = "update"
  /\ UNCHANGED <<contacts, messages, campaignVars, nextWamid, quotaVars>>
  /\ \/ /\ retarget # NoCampaign /\ retarget.id = job.campaign.id
        /\ retarget' = [retarget EXCEPT !.status = "running",
                                        !.targetCount = Len(job.contacts)]
        /\ executing' = Moved(executing, job, NewRetargetRun(job))
        /\ resp' = [op |-> "execute", code |-> 200, targetCount |-> Len(job.contacts)]
        /\ UNCHANGED faults
     \/ \* the update rejects: caught, 500
        /\ faults > 0
        /\ faults' = faults - 1
        /\ executing' = Take(executing, job)
        /\ resp' = [op |-> "execute", code |-> 500]
        /\ UNCHANGED retarget

\* the message row one iteration of processRetargetCampaign inserts
RetargetMessage(run, c) ==
  [userId |-> run.campaign.userId, contactId |-> c, campaignId |-> NullId,
   direction |-> "OUTBOUND", status |-> "SENT", whatsappMessageId |-> NullId,
   deliveredAt |-> NullDate, readAt |-> NullDate, errorMessage |-> NULL]

\* one loop iteration: prisma.message.create, sentCount++ and the delay; a
\* rejected create is caught and the loop goes on
RetargetSend(run) ==
  LET next == [run EXCEPT !.i = @ + 1,
                          !.pc = IF run.i < Len(run.contacts) THEN "send" ELSE "finish"]
  IN
  /\ BagIn(run, executing)
  /\ run.pc = "send"
  /\ resp' = NoResponse
  /\ UNCHANGED <<contacts, campaignVars, nextWamid, quotaVars, retarget, faults>>
  /\ \/ /\ messages' = Put(messages, RetargetMessage(run, run.contacts[run.i]))
        /\ executing' = Moved(executing, run, [next EXCEPT !.sentCount = @ + 1])
     \/ /\ UNCHANGED messages
        /\ executing' = Moved(executing, run, next)

\* the update with the final count; when it rejects, the outer catch
RetargetFinish(run) ==
  /\ BagIn(run, executing)
  /\ run.pc = "finish"
  /\ resp' = NoResponse
  /\ UNCHANGED <<contacts, messages, campaignVars, nextWamid, quotaVars>>
  /\ \/ /\ retarget # NoCampaign /\ retarget.id = run.campaign.id
        /\ retarget' = [retarget EXCEPT !.status = "completed",
                                        !.sentCount = run.sentCount]
        /\ executing' = Moved(executing, run, [run EXCEPT !.pc = "done"])
        /\ UNCHANGED faults
     \/ /\ faults > 0
        /\ faults' = faults - 1
        /\ executing' = Moved(executing, run, [run EXCEPT !.pc = "fail"])
        /\ UNCHANGED retarget

\* the outer catch: update({ status: 'failed' })
RetargetFail(run) ==
  /\ BagIn(run, executing)
  /\ run.pc = "fail"
  /\ resp' = NoResponse
  /\ UNCHANGED <<contacts, messages, campaignVars, nextWamid, quotaVars>>
  /\ \/ /\ retarget # NoCampaign /\ retarget.id = run.campaign.id
        /\ retarget' = [retarget EXCEPT !.status = "failed"]
        /\ executing' = Moved(executing, run, [run EXCEPT !.pc = "failed"])
        /\ UNCHANGED faults
     \/ \* this update rejects too: the rejection is unhandled
        /\ faults > 0
        /\ faults' = faults - 1
        /\ executing' = Moved(executing, run, [run EXCEPT !.pc = "crashed"])
        /\ UNCHANGED retarget

\* --------------------------------------------- the engine specification
\* request bodies the model draws from
ContactIdLists ==
  UNION {[1..n -> DOMAIN contacts] : n \in 1..MaxContacts}

\* ids a request may name: every id handed out so far and one unknown id
CampaignIds == 1..nextId

\* a client issues a request: it runs up to its first awaited write
Arrives == budget > 0 /\ budget' = budget - 1

\* a request or background function already running takes its next step
Continues == UNCHANGED budget

\* the campaign routes leave the plan tables and the gateway alone
Engine == UNCHANGED <<nextWamid, quotaVars, retargetVars>>

Create ==
  /\ Arrives /\ Engine
  /\ \E by \in Tenants, accountFound \in BOOLEAN, templateOk \in BOOLEAN,
        contactIds \in ContactIdLists, scheduledAt \in {NULL, "later"} :
          CreateCampaign(by, accountFound, templateOk, contactIds, scheduledAt)

EditRequest ==
  /\ Arrives /\ Engine
  /\ \E by \in Tenants, id \in CampaignIds : EditRead(by, id)

EditUpdate ==
  /\ Continues /\ Engine
  /\ \E id \in editing, name \in {Undefined, "n2"}, scheduledAt \in {NULL, "later"} :
       EditCommit(id, name, scheduledAt)

StartRequest ==
  /\ Arrives /\ Engine
  /\ \E by \in Tenants, id \in CampaignIds : StartRead(by, id)

StartUpdate ==
  /\ Continues /\ Engine
  /\ \E s \in BagToSet(starting) : StartCommit(s)

PauseRequest ==
  /\ Arrives /\ Engine
  /\ \E by \in Tenants, id \in CampaignIds : PauseRead(by, id)

PauseUpdate ==
  /\ Continues /\ Engine
  /\ \E id \in pausing : PauseCommit(id)

DeleteRequest ==
  /\ Arrives /\ Engine
  /\ \E by \in Tenants, id \in CampaignIds : DeleteRead(by, id)

DeleteUpdate ==
  /\ Continues /\ Engine
  /\ \E id \in deleting : DeleteCommit(id)

Dispatch ==
  /\ Continues /\ Engine
  /\ \E run \in BagToSet(runs) :
       \/ W_Create(run)
       \/ W_MarkSent(run)
       \/ W_IncSent(run)
       \/ W_MarkFailed(run)
       \/ W_IncFailed(run)
       \/ W_Count(run)
       \/ W_Complete(run)
       \/ W_Fail(run)

\* status callbacks the gateway may deliver
Statuses ==
  [id : 1..nextWamid, status : {"sent", "delivered", "read", "failed"},
   timestamp : 1..MaxTimestamp, title : {Undefined, "Undeliverable"}]

StatusLists == UNION {[1..n -> Statuses] : n \in 0..MaxStatuses}

\* in the engine specification one callback per payload and one timestamp
\* are enough: no campaign message carries a provider message id, so the
\* updateMany of a callback matches no row of a campaign
Callback ==
  /\ Arrives
  /\ \/ \E st \in {x \in Statuses : x.timestamp = 1 /\ x.title = Undefined} :
          Webhook("ok", <<st>>)
     \/ \E verdict \in {"nopayload", "noaccount", "badsignature"} :
          Webhook(verdict, <<>>)

Next ==
  \/ Create
  \/ EditRequest \/ EditUpdate
  \/ StartRequest \/ StartUpdate
  \/ PauseRequest \/ PauseUpdate
  \/ DeleteRequest \/ DeleteUpdate
  \/ Dispatch
  \/ Callback

Spec == Init /\ [][Next]_vars

\* ------------------------------------------- the ingestion specification
Send ==
  /\ Arrives
  /\ \E by \in Tenants, accountFound \in BOOLEAN, to \in 0..MaxContacts + 1,
        gatewayOk \in BOOLEAN :
       SendMessage(by, accountFound, to, gatewayOk)

Callbacks ==
  /\ Arrives
  /\ \E verdict \in {"ok", "nopayload", "noaccount", "badsignature"},
        statuses \in StatusLists :
       Webhook(verdict, statuses)

NextIngest == Send \/ Callbacks

SpecIngest == Init /\ [][NextIngest]_vars

\* ----------------------------------------------- the quota specification
InitQuota ==
  /\ Empty
  /\ contacts = ContactStore(MaxContacts)
  /\ faults = MaxFaults
  /\ budget = MaxRequests
  /\ \E planId \in PlanIds \cup {NULL}, used \in 0..MaxUsage :
       /\ (/\ planId # NULL
           /\ "messages" \in DOMAIN Plans[planId].limits
           /\ Plans[planId].limits["messages"] # Unlimited)
            => used <= Plans[planId].limits["messages"]
       /\ user = UserRow(planId, used)
       /\ issued = [r \in Resources |-> IF r = "messages" THEN used ELSE 0]

CheckUsage ==
  /\ Arrives
  /\ \E by \in {"A", "ghost"}, resource \in Resources : CheckUsageLimit(by, resource)

IncrementUsageRead ==
  /\ Continues
  /\ \E job \in BagToSet(billing), amount \in 1..MaxAmount : IncrementRead(job, amount)

IncrementUsageWrite ==
  /\ Continues
  /\ \E job \in BagToSet(billing) : IncrementWrite(job)

PlanChange ==
  /\ Arrives
  /\ \E id \in {"A", "ghost"}, planId \in PlanIds \cup {"unknown"},
        planEndDate \in {NullDate, MaxDate} :
       ChangePlan(id, planId, planEndDate)

QuotaReset ==
  /\ Arrives
  /\ \E id \in {"A", "ghost"} : ResetQuota(id)

NextQuota ==
  \/ CheckUsage
  \/ IncrementUsageRead
  \/ IncrementUsageWrite
  \/ PlanChange
  \/ QuotaReset

SpecQuota == InitQuota /\ [][NextQuota]_vars

\* billable requests alone: each passes checkUsageLimit and then calls
\* incrementUsage with its default amount
IncrementDefaultRead ==
  /\ Continues
  /\ \E job \in BagToSet(billing) : IncrementRead(job, 1)

NextBilling == CheckUsage \/ IncrementDefaultRead \/ IncrementUsageWrite

SpecBilling == InitQuota /\ [][NextBilling]_vars

\* ---------------------------------------------- the access specification
Features == {"campaigns", "retargeting", "forms"}

\* a users row of any role, with or without a plan and a plan end date
InitAccess ==
  /\ Empty
  /\ contacts = ContactStore(MaxContacts)
  /\ faults = MaxFaults
  /\ budget = MaxRequests
  /\ issued = [r \in Resources |-> 0]
  /\ \E role \in {"USER", "SUPER_ADMIN"}, planId \in PlanIds \cup {NULL},
        planEndDate \in {NullDate} \cup 1..MaxDate :
       user = [role |-> role, planId |-> planId, planEndDate |-> planEndDate,
               quotaUsed |-> <<>>]

AccessCheck ==
  /\ Arrives
  /\ \E by \in {"A", "ghost"}, feature \in Features, now \in 1..MaxDate :
       CheckPlanAccess(by, feature, now)

NextAccess == AccessCheck \/ PlanChange

SpecAccess == InitAccess /\ [][NextAccess]_vars

\* -------------------------------------------- the resolver specification
TagNames == {"VIP", "NEW"}

\* every combination of the columns the filters look at
Profiles ==
  [isUnread : BOOLEAN, hasReplied : BOOLEAN, clicks : {0, 1},
   tags : SUBSET TagNames, lastMessageAt : {NullDate, 1, MaxDate},
   source : {"MANUAL", "IMPORT"}]

\* contacts that differ in the unread flag and in their tags only
CommonProfiles ==
  {p \in Profiles : /\ ~p.hasReplied /\ p.clicks = 1 /\ p.lastMessageAt = 1
                    /\ p.source = "MANUAL"
                    /\ \/ p.isUnread /\ p.tags = TagNames
                       \/ p.isUnread /\ p.tags = {"VIP"}
                       \/ ~p.isUnread /\ p.tags = {"VIP"}}

ContactRow(by, c, p) ==
  [userId |-> by, phone |-> c, isUnread |-> p.isUnread, hasReplied |-> p.hasReplied,
   clicks |-> p.clicks, tags |-> p.tags, lastMessageAt |-> p.lastMessageAt,
   source |-> p.source]

\* contact 0 belongs to tenant "B" and passes every filter; either contact 1
\* of tenant "A" has any profile and the others are unread with every tag, or
\* every contact of "A" has one of the common profiles
InitResolver ==
  /\ Empty
  /\ faults = MaxFaults
  /\ budget = ResolverRequests
  /\ user = UserRow("basic", 0)
  /\ issued = [r \in Resources |-> 0]
  /\ \E p1 \in Profiles, rest \in [2..RetargetContacts -> CommonProfiles] :
       /\ \/ p1 \in CommonProfiles
          \/ \A c \in 2..RetargetContacts : rest[c].isUnread /\ rest[c].tags = TagNames
       /\ contacts =
         [c \in 0..RetargetContacts |->
            IF c = 0
            THEN ContactRow("B", 0, [isUnread |-> TRUE, hasReplied |-> FALSE,
                                     clicks |-> 1, tags |-> TagNames,
                                     lastMessageAt |-> 1, source |-> "MANUAL"])
            ELSE ContactRow("A", c, IF c = 1 THEN p1 ELSE rest[c])]

\* request bodies: the filters object
Filters ==
  [unread : BOOLEAN, noReply : BOOLEAN, clicked : BOOLEAN,
   tags : {<<>>, <<"VIP">>, <<"VIP", "NEW">>},
   lastMessageBefore : {NullDate, MaxDate}, source : {NULL, "MANUAL"}]

RetargetIds == {1, 2}

Retarget ==
  /\ Arrives
  /\ \E by \in Tenants, filters \in Filters : RetargetCreate(by, filters)

ExecuteRequest ==
  /\ Arrives
  /\ \E by \in Tenants, id \in RetargetIds : ExecuteRead(by, id)

ExecuteQuery ==
  /\ Continues
  /\ \E job \in BagToSet(executing) : ExecuteResolve(job)

ExecuteLaunch ==
  /\ Continues
  /\ \E job \in BagToSet(executing) : ExecuteUpdate(job)

RetargetRun ==
  /\ Continues
  /\ \E run \in BagToSet(executing) :
       RetargetSend(run) \/ RetargetFinish(run) \/ RetargetFail(run)

\* the handlers alone: the background run is launched and left where it is
NextResolver == Retarget \/ ExecuteRequest \/ ExecuteQuery \/ ExecuteLaunch

SpecResolver == InitResolver /\ [][NextResolver]_vars

\* ---------------------------------------------- the tenant specification
\* tenant "B" has created a campaign on its contact; both tenants then send
\* requests that name it or an unknown id, while it is dispatched
InitTenant ==
  /\ contacts = ContactStore(MaxContacts)
  /\ \E scheduledAt \in {NULL, "later"} :
       camp = NewCampaign(1, "B", scheduledAt, 1)
  /\ rows = [c \in {0} |-> NewRow]
  /\ nextId = 2
  /\ messages = EmptyBag
  /\ starting = EmptyBag
  /\ pausing = {}
  /\ editing = {}
  /\ deleting = {}
  /\ runs = EmptyBag
  /\ resp = [op |-> "create", code |-> 201]
  /\ nextWamid = 1
  /\ billing = EmptyBag
  /\ wasReset = FALSE
  /\ retarget = NoCampaign
  /\ executing = EmptyBag
  /\ faults = MaxFaults
  /\ budget = TenantRequests
  /\ user = UserRow("basic", 0)
  /\ issued = [r \in {"messages", "contacts"} |-> 0]

GetRequest ==
  /\ Arrives /\ Engine
  /\ \E by \in Tenants, id \in CampaignIds : GetCampaign(by, id)

NextTenant ==
  \/ GetRequest
  \/ EditRequest \/ EditUpdate
  \/ StartRequest \/ StartUpdate
  \/ PauseRequest \/ PauseUpdate
  \/ DeleteRequest \/ DeleteUpdate
  \/ Dispatch

SpecTenant == InitTenant /\ [][NextTenant]_vars

\* -------------------------------------------- the retarget specification
\* tenant "A" has RetargetContacts contacts, all unread and tagged, and a
\* draft retarget campaign over them as the create route stored it; execute
\* requests arrive and the background runs they launch proceed
InitRetarget ==
  /\ nextId = 1
  /\ camp = NoCampaign
  /\ rows = <<>>
  /\ messages = EmptyBag
  /\ starting = EmptyBag
  /\ pausing = {}
  /\ editing = {}
  /\ deleting = {}
  /\ runs = EmptyBag
  /\ resp = NoResponse
  /\ nextWamid = 1
  /\ billing = EmptyBag
  /\ wasReset = FALSE
  /\ executing = EmptyBag
  /\ retarget = DraftRow("A", [unread |-> TRUE, noReply |-> FALSE, clicked |-> FALSE,
                               tags |-> <<"VIP">>, lastMessageBefore |-> NullDate,
                               source |-> NULL], RetargetContacts)
  /\ faults = MaxFaults
  /\ budget = ExecuteRequests
  /\ user = UserRow("basic", 0)
  /\ issued = [r \in Resources |-> 0]
  /\ contacts =
       [c \in 0..RetargetContacts |->
          ContactRow(IF c = 0 THEN "B" ELSE "A", c,
                     [isUnread |-> TRUE, hasReplied |-> FALSE, clicks |-> 1,
                      tags |-> TagNames, lastMessageAt |-> 1, source |-> "MANUAL"])]

NextRetarget == ExecuteRequest \/ ExecuteQuery \/ ExecuteLaunch \/ RetargetRun

SpecRetarget == InitRetarget /\ [][NextRetarget]_vars

\* -------------------------------------------- the creation specification
\* both tenants create campaigns from any list of stored contact ids, and
\* delete them
InitCreate ==
  /\ Empty
  /\ contacts = ContactStore(MaxContacts)
  /\ faults = MaxFaults
  /\ budget = CreateRequests
  /\ user = UserRow("basic", 0)
  /\ issued = [r \in {"messages", "contacts"} |-> 0]

NextCreate == Create \/ DeleteRequest \/ DeleteUpdate

SpecCreate == InitCreate /\ [][NextCreate]_vars

\* ------------------------------------------ the unknown-id specification
\* messages are sent through POST /send-message, and the webhook receives
\* payloads that hold a status for a provider message id no message has (the
\* id the gateway will hand out next), alone or next to one other status
UnknownStatuses ==
  [id : {nextWamid}, status : {"delivered", "read", "failed"},
   timestamp : {1}, title : {Undefined}]

OtherStatuses ==
  [id : 1..nextWamid, status : {"delivered", "read", "failed"},
   timestamp : {1}, title : {Undefined}]

UnknownPayloads ==
  {<<u>> : u \in UnknownStatuses}
    \cup {<<u, k>> : u \in UnknownStatuses, k \in OtherStatuses}
    \cup {<<k, u>> : u \in UnknownStatuses, k \in OtherStatuses}

CallbackUnknown ==
  /\ Arrives
  /\ \E statuses \in UnknownPayloads : Webhook("ok", statuses)

InitUnknown ==
  /\ Empty
  /\ contacts = ContactStore(MaxContacts)
  /\ faults = MaxFaults
  /\ budget = UnknownRequests
  /\ user = UserRow("basic", 0)
  /\ issued = [r \in {"messages", "contacts"} |-> 0]

NextUnknown == Send \/ CallbackUnknown

SpecUnknown == InitUnknown /\ [][NextUnknown]_vars

\* ---------------------------------------------- the linked specification
\* tenant "A" starts the campaign it has created, and the webhook receives
\* status callbacks whose id is null: the messages the worker inserts have
\* no provider message id, and { whatsappMessageId: null } selects them
InitLinked ==
  /\ contacts = ContactStore(MaxContacts)
  /\ \E found \in SUBSET {c \in DOMAIN contacts : contacts[c].userId = "A"} :
       /\ found # {}
       /\ camp = NewCampaign(1, "A", NULL, Cardinality(found))
       /\ rows = [c \in found |-> NewRow]
  /\ user = UserRow("basic", 0)
  /\ nextId = 2
  /\ messages = EmptyBag
  /\ starting = EmptyBag
  /\ pausing = {}
  /\ editing = {}
  /\ deleting = {}
  /\ runs = EmptyBag
  /\ resp = [op |-> "create", code |-> 201]
  /\ nextWamid = 1
  /\ billing = EmptyBag
  /\ wasReset = FALSE
  /\ retarget = NoCampaign
  /\ executing = EmptyBag
  /\ faults = MaxFaults
  /\ budget = LinkedRequests
  /\ issued = [r \in {"messages", "contacts"} |-> 0]

\* the statuses a callback without a provider message id may report
NullIdStatuses ==
  [id : {NullId}, status : {"sent", "delivered", "read", "failed"},
   timestamp : {1}, title : {Undefined}]

CallbackNullId ==
  /\ Arrives
  /\ \E st \in NullIdStatuses : Webhook("ok", <<st>>)

NextLinked == StartRequest \/ StartUpdate \/ Dispatch \/ CallbackNullId

SpecLinked == InitLinked /\ [][NextLinked]_vars

\* --------------------------------------------- the metered specification
\* tenant "A", on the basic plan with any recorded messages usage up to the
\* plan's limit, has created a campaign on contacts of its own and starts it
InitMetered ==
  /\ contacts = ContactStore(MaxContacts)
  /\ \E found \in SUBSET {c \in DOMAIN contacts : contacts[c].userId = "A"} :
       /\ found # {}
       /\ camp = NewCampaign(1, "A", NULL, Cardinality(found))
       /\ rows = [c \in found |-> NewRow]
  /\ \E used \in 0..BasicMessages : user = UserRow("basic", used)
  /\ nextId = 2
  /\ messages = EmptyBag
  /\ starting = EmptyBag
  /\ pausing = {}
  /\ editing = {}
  /\ deleting = {}
  /\ runs = EmptyBag
  /\ resp = [op |-> "create", code |-> 201]
  /\ nextWamid = 1
  /\ billing = EmptyBag
  /\ wasReset = FALSE
  /\ retarget = NoCampaign
  /\ executing = EmptyBag
  /\ faults = MaxFaults
  /\ budget = MeteredRequests
  /\ issued = [r \in {"messages", "contacts"} |-> 0]

NextMetered == StartRequest \/ StartUpdate \/ Dispatch

SpecMetered == InitMetered /\ [][NextMetered]_vars

\* --------------------------------------------- the end-to-end scenario
\* one tenant with MaxTargets contacts creates one campaign and starts it;
\* no other request arrives and the storage layer does not fail
InitE2E ==
  /\ Empty
  /\ contacts = [c \in 1..MaxTargets |-> [userId |-> "A", phone |-> c]]
  /\ faults = 0
  /\ budget = 2
  /\ user = UserRow("basic", 0)
  /\ issued = [r \in Resources |-> 0]

CreateTargets ==
  /\ Arrives /\ Engine
  /\ \E n \in 1..MaxTargets : CreateCampaign("A", TRUE, TRUE, [i \in 1..n |-> i], NULL)

StartOnce ==
  /\ Arrives /\ Engine
  /\ camp # NoCampaign
  /\ StartRead("A", camp.id)

NextE2E == CreateTargets \/ StartOnce \/ StartUpdate \/ Dispatch

\* an awaited call that can resolve does resolve, and its continuation runs
SpecE2E ==
  InitE2E /\ [][NextE2E]_vars /\ WF_vars(StartUpdate) /\ WF_vars(Dispatch)

\* ======================================================== the claims
StatusOf(c) == IF c = NoCampaign THEN "NONE" ELSE c.status

\* C1: in every reachable state of a campaign sentCount + failedCount <=
\* totalContacts, deliveredCount <= sentCount and readCount <= deliveredCount.
CounterBounds ==
  camp # NoCampaign =>
    /\ camp.sentCount + camp.failedCount <= camp.totalContacts
    /\ camp.deliveredCount <= camp.sentCount
    /\ camp.readCount <= camp.deliveredCount

TerminalStatusKept ==
  [][(StatusOf(camp) \in {"COMPLETED", "FAILED"} /\ camp' # NoCampaign)
       => camp'.status = camp.status]_vars

\* the plan limit of the tenant for a resource is a number other than -1
FiniteLimit(resource) ==
  /\ user.planId # NULL
  /\ resource \in DOMAIN Plans[user.planId].limits
  /\ Plans[user.planId].limits[resource] # Unlimited

\* C4: with billable requests of one tenant interleaving (usage check, then
\* increment), the stored usage of a finitely limited resource never exceeds
\* the limit.
UsageWithinLimit ==
  \A r \in Resources :
    FiniteLimit(r) => Used(user.quotaUsed, r) <= Plans[user.planId].limits[r]

\* jobs in the bag that wait for their handler, for one resource
Admitted(B, r) ==
  SumCounts(B, {j \in DOMAIN B : j.pc = "admitted" /\ j.resource = r})

\* C5: when usage of a resource has reached the finite plan limit the check
\* admits nothing; its 403 reports the resource, the limit and the usage, and
\* the users row is unchanged.
LimitReachedRejects ==
  [][/\ \A r \in Resources :
          Admitted(billing', r) > Admitted(billing, r)
            => ~(FiniteLimit(r) /\ Used(user.quotaUsed, r) >= Plans[user.planId].limits[r])
     /\ (resp'.op = "checkUsage" /\ resp'.error = "Usage limit exceeded")
          => /\ FiniteLimit(resp'.resource)
             /\ resp'.limit = Plans[user.planId].limits[resp'.resource]
             /\ resp'.used = Used(user.quotaUsed, resp'.resource)
             /\ resp'.used >= resp'.limit
             /\ resp'.code = 403 /\ resp'.upgradeRequired
             /\ UNCHANGED <<user, billing>>
    ]_vars

\* C5 witness: the check refuses at used = limit (the spec's 5 of 5)
RefusedAtLimit ==
  /\ resp.op = "checkUsage"
  /\ resp.error = "Usage limit exceeded"
  /\ resp.resource = "messages"
  /\ resp.used = resp.limit
  /\ resp.limit = BasicMessages

\* C6: when every incrementUsage call has returned (no reset, no storage
\* fault), the stored usage is the initial usage plus the sum of the amounts.
NoLostIncrement ==
  (billing = EmptyBag /\ ~wasReset /\ faults = MaxFaults)
    => \A r \in Resources : Used(user.quotaUsed, r) = issued[r]

\* the dispatch run of the scenario has been launched and has returned
RunOver ==
  /\ starting = EmptyBag
  /\ runs # EmptyBag
  /\ \A run \in BagToSet(runs) : RunEnded(run)

RowsIn(S) == {c \in DOMAIN rows : rows[c].status \in S}

\* COMPLETED, sentCount = k, failedCount = n - k, totalContacts = n and one
\* row per target, each SENT or FAILED; k is the number of sends that succeeded
ScenarioOutcome ==
  LET n == Cardinality(DOMAIN rows)
      k == BagCardinality(messages)
  IN /\ RunOver
     /\ StatusOf(camp) = "COMPLETED"
     /\ camp.totalContacts = n
     /\ camp.sentCount = k
     /\ camp.failedCount = n - k
     /\ Cardinality(RowsIn({"SENT"})) = k
     /\ RowsIn({"SENT", "FAILED"}) = DOMAIN rows

\* C7: for any number n of targets, once the run of the started campaign has
\* returned the campaign is COMPLETED with sentCount = k, failedCount = n - k,
\* totalContacts = n and every row SENT or FAILED.
ScenarioOutcomeAnyN == RunOver => ScenarioOutcome

\* with at most BatchSize targets a started campaign does reach that outcome
\* and stays in it
ScenarioOutcomeWithinBatch ==
  [](((starting # EmptyBag \/ runs # EmptyBag) /\ camp.totalContacts <= BatchSize)
       => <>[]ScenarioOutcome)

\* the scenario of 3 targets of which 2 succeed
TwoOfThree ==
  /\ ScenarioOutcome
  /\ camp.totalContacts = 3
  /\ camp.sentCount = 2
  /\ camp.failedCount = 1

\* the rows of `msgs` that carry this provider message id
WithWamid(msgs, id) == {m \in DOMAIN msgs : m.whatsappMessageId = id}

\* C8: a message whose status is FAILED keeps it whatever callback follows.
FailedStays ==
  [][\A m \in DOMAIN messages :
       (m.status = "FAILED" /\ m.whatsappMessageId # NullId)
         => \A m2 \in WithWamid(messages', m.whatsappMessageId) : m2.status = "FAILED"
    ]_vars

\* C9: a FAILED callback after DELIVERED leaves the message DELIVERED.
DeliveredNotOverwrittenByFailed ==
  [][\A m \in DOMAIN messages :
       (m.status = "DELIVERED" /\ m.whatsappMessageId # NullId)
         => \A m2 \in WithWamid(messages', m.whatsappMessageId) : m2.status # "FAILED"
    ]_vars

\* C10: every message whose status is READ has deliveredAt set (a READ callback
\* without a recorded DELIVERED sets deliveredAt and readAt alike).
ReadImpliesDelivered ==
  \A m \in DOMAIN messages :
    m.status = "READ" => (m.deliveredAt # NullDate /\ m.readAt # NullDate)

\* C11: an edit is admitted only while the campaign's status is DRAFT or
\* SCHEDULED; an edit that finds RUNNING, PAUSED, COMPLETED or FAILED is
\* refused, and a refused edit leaves the campaign unchanged.
EditOnlyDraftOrScheduled ==
  [][/\ (editing' # editing /\ editing \subseteq editing')
          => StatusOf(camp) \in {"DRAFT", "SCHEDULED"}
     /\ (resp' = [op |-> "edit", code |-> 200] /\ camp' # camp)
          => editing' # editing /\ editing' \subseteq editing
     /\ resp' = [op |-> "edit", code |-> 400] => UNCHANGED <<camp, rows>>
    ]_vars

UnlimitedFor(resource) ==
  /\ user.planId # NULL
  /\ resource \in DOMAIN Plans[user.planId].limits
  /\ Plans[user.planId].limits[resource] = Unlimited

\* C14: while the tenant's plan limit for a resource is -1, no usage check is
\* answered "Usage limit exceeded" for that resource, whatever the usage is:
\* every check of the tenant for it is admitted.
UnlimitedAlwaysAdmitted ==
  [][\A r \in Resources :
       (UnlimitedFor(r) /\ resp'.op = "checkUsage")
         => /\ resp'.error = "No active plan"
            /\ Admitted(billing', r) = Admitted(billing, r)
    ]_vars

\* C14 witness: a request was admitted for an unlimited resource at the
\* largest usage of the model, above every finite limit of the plans table
AdmittedAtLargeUsage ==
  /\ UnlimitedFor("messages")
  /\ UnlimitedFor("contacts")
  /\ Used(user.quotaUsed, "messages") >= MaxUsage
  /\ Used(user.quotaUsed, "messages") > BasicMessages
  /\ Admitted(billing, "messages") > 0
  /\ Admitted(billing, "contacts") > 0

\* the requests that checkPlanAccess lets through in this step
GrantedNow ==
  {j \in DOMAIN billing' :
     /\ j.pc = "granted"
     /\ (j \notin DOMAIN billing \/ billing'[j] > billing[j])}

\* every rejection of checkPlanAccess rests on its condition, and the check
\* writes nothing
AccessRejections ==
  /\ resp'.op = "checkAccess" => UNCHANGED <<user, billing>>
  /\ GrantedNow # {} => UNCHANGED user
  /\ (resp'.op = "checkAccess" /\ resp'.error = "No active plan")
       => user.planId = NULL
  /\ (resp'.op = "checkAccess" /\ resp'.error = "Feature not available in your plan")
       => /\ user.planId # NULL
          /\ resp'.feature \notin Plans[user.planId].features
  /\ (resp'.op = "checkAccess" /\ resp'.error = "Plan expired")
       => /\ resp'.expiredAt = user.planEndDate
          /\ user.planEndDate # NullDate
          /\ user.planEndDate < resp'.at

\* the tenant has a plan, the plan has the feature and its end has not passed
AccessConditions(j) ==
  /\ j.userId = "A"
  /\ user.planId # NULL
  /\ j.feature \in Plans[user.planId].features
  /\ ~(user.planEndDate # NullDate /\ user.planEndDate < j.at)

\* C15 as stated: a request is admitted only when the tenant has a plan, the
\* plan includes the feature and the plan end date has not passed; each of the
\* three rejections rests on its condition; the check modifies no stored state.
AccessOnlyWhenEntitled ==
  [][/\ AccessRejections
     /\ \A j \in GrantedNow : AccessConditions(j)
    ]_vars

\* C15 amended: the same for every user whose role is not SUPER_ADMIN; a
\* SUPER_ADMIN is admitted whatever the plan, the feature and the end date.
AccessOnlyWhenEntitledOrSuperAdmin ==
  [][/\ AccessRejections
     /\ \A j \in GrantedNow :
          IF user.role = "SUPER_ADMIN" THEN j.userId = "A" ELSE AccessConditions(j)
     /\ (resp'.op = "checkAccess" /\ resp'.code = 403) => user.role # "SUPER_ADMIN"
    ]_vars

\* C15 witness: a user with a plan that has the feature was refused because
\* the plan end date had passed
RefusedExpired ==
  /\ resp.op = "checkAccess"
  /\ resp.error = "Plan expired"
  /\ user.role = "USER"
  /\ user.planId # NULL
  /\ user.planEndDate < resp.at

\* C16: when a plan change or an administrative quota reset has answered 200,
\* every resource counter of the tenant reads 0.
ResetZeroesUsage ==
  [][(resp' = [op |-> "plan", code |-> 200] \/ resp' = [op |-> "reset", code |-> 200])
       => \A r \in Resources : Used(user'.quotaUsed, r) = 0
    ]_vars

\* C16 witness: a reset has just completed for a tenant who had used both
\* resources, and the counters read 0
ResetAfterUsage ==
  /\ resp = [op |-> "reset", code |-> 200]
  /\ issued["messages"] > 0
  /\ issued["contacts"] > 0
  /\ \A r \in Resources : Used(user.quotaUsed, r) = 0

\* the tenant's own contacts that satisfy every predicate present in the
\* filter: unread-only, never-replied, has-click-history, tagged with any of
\* the tags, last activity before the timestamp, source equals
ExpectedTargets(by, f) ==
  {c \in DOMAIN contacts :
     /\ contacts[c].userId = by
     /\ f.unread => contacts[c].isUnread
     /\ f.noReply => ~contacts[c].hasReplied
     /\ f.clicked => contacts[c].clicks >= 1
     /\ f.tags # <<>> => contacts[c].tags \cap Range(f.tags) # {}
     /\ f.lastMessageBefore # NullDate
          => contacts[c].lastMessageAt \in 0..(f.lastMessageBefore - 1)
     /\ f.source # NULL => contacts[c].source = f.source}

\* C17: the count a retarget campaign is created with is the number of the
\* tenant's own contacts that satisfy every predicate present in its filter;
\* the list an execute materializes holds each such contact at most once and
\* no other contact, and holds all of them when they fit the take.
ResolverExact ==
  /\ (retarget # NoCampaign /\ retarget.status = "draft")
       => retarget.targetCount
            = Cardinality(ExpectedTargets(retarget.userId, retarget.filters))
  /\ \A job \in DOMAIN executing :
       job.pc # "resolve" =>
         LET expected == ExpectedTargets(job.campaign.userId, job.campaign.filters)
             got == job.contacts
         IN /\ \A i, j \in 1..Len(got) : got[i] = got[j] => i = j
            /\ Range(got) \subseteq expected
            /\ Cardinality(expected) <= RetargetTake => Range(got) = expected
            /\ Len(got) = Min(Cardinality(expected), RetargetTake)

\* C17 witness: {unread: true, tags: ["VIP", "NEW"]} was executed; the list
\* holds a contact that carries both tags (once) and all the expected
\* contacts, and leaves out a contact of the tenant that is not unread
UnreadVipResolved ==
  \E job \in DOMAIN executing :
    /\ job.pc = "send"
    /\ job.campaign.userId = "A"
    /\ job.campaign.filters.unread
    /\ job.campaign.filters.tags = <<"VIP", "NEW">>
    /\ \E c \in Range(job.contacts) : contacts[c].tags = TagNames
    /\ \E c \in DOMAIN contacts :
         /\ contacts[c].userId = "A" /\ ~contacts[c].isUnread
         /\ contacts[c].tags = {"VIP"} /\ c \notin Range(job.contacts)
    /\ Range(job.contacts)
         = ExpectedTargets(job.campaign.userId, job.campaign.filters)
    /\ retarget.targetCount = Len(job.contacts)

\* C18: a newly created campaign has status DRAFT, and afterwards its status
\* changes only by a transition of the state machine: DRAFT/SCHEDULED to
\* RUNNING (start), RUNNING to PAUSED (pause), RUNNING to COMPLETED
\* (automatic completion), a non-terminal status to FAILED (failure).
StatusOnlyByStateMachine ==
  [][/\ (camp = NoCampaign /\ camp' # NoCampaign) => camp'.status = "DRAFT"
     /\ (camp # NoCampaign /\ camp' # NoCampaign /\ camp'.status # camp.status)
          => \/ camp.status \in {"DRAFT", "SCHEDULED"} /\ camp'.status = "RUNNING"
             \/ camp.status = "RUNNING" /\ camp'.status = "PAUSED"
             \/ camp.status = "RUNNING" /\ camp'.status = "COMPLETED"
             \/ camp.status \notin {"COMPLETED", "FAILED"} /\ camp'.status = "FAILED"
    ]_vars

\* for edits alone: an edit never takes a campaign out of PAUSED or FAILED
EditKeepsPausedAndFailed ==
  [][(camp # NoCampaign /\ camp.status \in {"PAUSED", "FAILED"}
        /\ resp' = [op |-> "edit", code |-> 200] /\ camp' # NoCampaign)
       => camp'.status = camp.status
    ]_vars

\* the campaign this id names is not one of this tenant: the id is unknown
\* or the campaign is owned by somebody else
NotOwn(by, id) == camp = NoCampaign \/ camp.id # id \/ camp.userId # by

\* C19: a start, pause, edit, delete or get that a tenant issues on a
\* campaign of another tenant, or on an unknown id, is answered 404 in its
\* first step, admits no request and launches no run, and leaves the campaign,
\* its rows (and so its counters) and the messages unchanged.
TenantIsolation ==
  [][\A by \in Tenants, id \in CampaignIds :
       (/\ NotOwn(by, id)
        /\ \/ StartRead(by, id) \/ PauseRead(by, id) \/ EditRead(by, id)
           \/ DeleteRead(by, id) \/ GetCampaign(by, id))
         => /\ resp'.code = 404
            /\ UNCHANGED <<camp, rows, messages, runs, starting, pausing,
                           editing, deleting>>
    ]_vars

\* C19 witness: tenant "B"'s campaign is RUNNING with a dispatch run under
\* way, and a delete has just been answered 404
ForeignDeleteRefused ==
  /\ camp # NoCampaign /\ camp.userId = "B" /\ camp.status = "RUNNING"
  /\ runs # EmptyBag
  /\ resp = [op |-> "delete", code |-> 404]

\* the number of outbound messages created for this campaign and contact
MessageCount(id, c) ==
  SumCounts(messages, {m \in DOMAIN messages : m.campaignId = id /\ m.contactId = c})

\* C20: whatever the interleaving of create, edit, start and pause requests,
\* at most one outbound message is ever created per (campaign, contact), and
\* a message is created only for a recipient whose row is still PENDING (a
\* row already SENT or FAILED is never sent again).
OneMessagePerRecipient ==
  [][\A id \in 1..nextId, c \in DOMAIN contacts :
       MessageCount(id, c)' > MessageCount(id, c)
         => /\ MessageCount(id, c) = 0
            /\ (CampaignExists(id) /\ c \in DOMAIN rows) => rows[c].status = "PENDING"
    ]_vars

\* C21: while a campaign is PAUSED the dispatch worker issues no new send:
\* no outbound message is created for it in a step that starts with the
\* campaign PAUSED (a send whose message was created before the pause may
\* still record its outcome).
NoSendWhilePaused ==
  [][(camp # NoCampaign /\ camp.status = "PAUSED")
       => \A c \in DOMAIN contacts :
            MessageCount(camp.id, c)' <= MessageCount(camp.id, c)
    ]_vars

\* C22: a campaign becomes COMPLETED only in a step that starts with it
\* RUNNING; the dispatch worker never completes a campaign that is PAUSED,
\* DRAFT, SCHEDULED or FAILED.
CompletedOnlyFromRunning ==
  [][(StatusOf(camp') = "COMPLETED" /\ StatusOf(camp) # "COMPLETED")
       => StatusOf(camp) = "RUNNING"
    ]_vars

\* for pause alone: a PAUSED campaign is never moved to COMPLETED
PausedNeverCompleted ==
  [][StatusOf(camp) = "PAUSED" => StatusOf(camp') # "COMPLETED"]_vars

\* the tenant's recorded messages usage has reached its plan's limit
MessagesExhausted ==
  /\ user.planId # NULL
  /\ "messages" \in DOMAIN Plans[user.planId].limits
  /\ Plans[user.planId].limits.messages # Unlimited
  /\ Used(user.quotaUsed, "messages") >= Plans[user.planId].limits.messages

\* C23: while the campaign's tenant has exhausted its messages quota, the
\* worker creates no message for a target, and a row that leaves PENDING
\* becomes FAILED with the reason UsageLimitExceeded.
ExhaustedTargetNotSent ==
  [][(camp # NoCampaign /\ camp' # NoCampaign /\ camp.userId = "A"
        /\ MessagesExhausted)
       => \A c \in DOMAIN rows :
            /\ MessageCount(camp.id, c)' <= MessageCount(camp.id, c)
            /\ (rows[c].status = "PENDING" /\ rows'[c].status # "PENDING")
                 => /\ rows'[c].status = "FAILED"
                    /\ rows'[c].errorMessage = "UsageLimitExceeded"
    ]_vars

\* C24: a step that increments sentCount increases the tenant's messages
\* usage by exactly 1, and a step that increments failedCount leaves the
\* usage unchanged.
SendIsMetered ==
  [][(camp # NoCampaign /\ camp' # NoCampaign /\ camp.userId = "A")
       => /\ camp'.sentCount = camp.sentCount + 1
               => Used(user'.quotaUsed, "messages")
                    = Used(user.quotaUsed, "messages") + 1
          /\ camp'.failedCount = camp.failedCount + 1
               => Used(user'.quotaUsed, "messages") = Used(user.quotaUsed, "messages")
    ]_vars

\* for whole runs: once the runs of a campaign have ended, a positive
\* sentCount shows in the usage
SendsShowInUsage ==
  (/\ camp # NoCampaign /\ camp.userId = "A" /\ camp.sentCount > 0
   /\ starting = EmptyBag /\ \A run \in DOMAIN runs : RunEnded(run))
    => Used(user.quotaUsed, "messages") > 0

\* the run after it has recorded the outcome of its current recipient: at its
\* next recipient, or past the last one at the count of PENDING rows
Continued(run) ==
  IF run.i < Len(run.targets)
  THEN [run EXCEPT !.i = run.i + 1, !.pc = "create"]
  ELSE [run EXCEPT !.pc = "count"]

\* C25: a recipient whose send failed gets its row set to FAILED with an
\* errorMessage in a step that leaves the campaign as it is; failedCount then
\* grows by exactly 1 in a step that leaves the status as it is and takes
\* the run to its next recipient; and a run enters its outer catch only after
\* a rejected storage write or when the campaign or row is gone, never
\* because of a recipient's send failure.
RecipientFailureIsLocal ==
  [][/\ \A c \in DOMAIN rows :
          (c \in DOMAIN rows' /\ rows[c].status # "FAILED" /\ rows'[c].status = "FAILED")
            => /\ rows'[c].errorMessage # NULL
               /\ camp' = camp
               /\ \E run \in DOMAIN runs :
                    /\ run.pc = "markFailed" /\ run.targets[run.i] = c
                    /\ runs' = Moved(runs, run, [run EXCEPT !.pc = "incFailed"])
     /\ (camp # NoCampaign /\ camp' # NoCampaign /\ camp'.failedCount # camp.failedCount)
          => /\ camp' = [camp EXCEPT !.failedCount = camp.failedCount + 1]
             /\ \E run \in DOMAIN runs :
                  /\ run.pc = "incFailed"
                  /\ runs' = Moved(runs, run, Continued(run))
     /\ \A entered \in DOMAIN runs' :
          (entered.pc = "fail" /\ (entered \notin DOMAIN runs \/ runs'[entered] > runs[entered]))
            => \/ faults' = faults - 1
               \/ ~CampaignExists(entered.campaignId)
               \/ /\ entered.i \in 1..Len(entered.targets)
                  /\ ~RowExists(entered.campaignId, entered.targets[entered.i])
    ]_vars

\* C25 witness: the first of two recipients failed (row FAILED with its
\* errorMessage, failedCount 1), the campaign is still RUNNING and the run is
\* at the send of its second recipient
SecondRecipientAfterFailure ==
  /\ camp # NoCampaign /\ camp.status = "RUNNING" /\ camp.failedCount = 1
  /\ \E run \in DOMAIN runs :
       /\ run.pc = "create" /\ run.i = 2
       /\ rows[run.targets[1]].status = "FAILED"
       /\ rows[run.targets[1]].errorMessage = "Failed to send message"
       /\ rows[run.targets[2]].status = "PENDING"

\* C26: a run whose loop has thrown (a rejected storage write in the inner
\* catch, at the count of PENDING rows or at the completion) is in its outer
\* catch; its next step ends the run without touching rows or messages, and
\* sets the campaign FAILED when the campaign exists and that update is not
\* itself rejected.
LoopThrowFailsCampaign ==
  [][/\ \A run \in DOMAIN runs :
          (/\ run.pc \in {"markFailed", "incFailed", "count", "complete"}
           /\ faults' = faults - 1
           /\ \E next \in DOMAIN runs' : next # run /\ runs' = Moved(runs, run, next))
            => runs' = Moved(runs, run, [run EXCEPT !.pc = "fail"])
     /\ \A run \in DOMAIN runs :
          (/\ run.pc = "fail"
           /\ \E next \in DOMAIN runs' : next # run /\ runs' = Moved(runs, run, next))
            => /\ \E ended \in DOMAIN runs' :
                    RunEnded(ended) /\ runs' = Moved(runs, run, ended)
               /\ UNCHANGED <<rows, messages>>
               /\ (CampaignExists(run.campaignId) /\ faults' = faults)
                    => camp' = [camp EXCEPT !.status = "FAILED"]
    ]_vars

\* C26 witness: the update in the inner catch was rejected while the first
\* recipient's failure was being recorded; the run has ended, the second
\* recipient is untouched and the campaign is FAILED
FailedAfterLoopThrow ==
  /\ camp # NoCampaign /\ camp.status = "FAILED" /\ faults < MaxFaults
  /\ \E run \in DOMAIN runs : run.pc = "failed"
  /\ \E c \in DOMAIN rows : rows[c].status = "PENDING"
  /\ camp.sentCount = 0 /\ camp.failedCount = 0

RowRank(status) ==
  CASE status = "PENDING" -> 0
    [] status = "SENT" -> 1
    [] status = "DELIVERED" -> 2
    [] status = "READ" -> 3
    [] OTHER -> 4

\* C28: the status of a campaign-contact row never moves to an earlier status
\* on PENDING -> SENT -> DELIVERED -> READ, and a FAILED row stays FAILED (in
\* particular it never becomes SENT).
RowStatusMonotonic ==
  [][(camp # NoCampaign /\ camp' # NoCampaign /\ camp'.id = camp.id)
       => \A c \in DOMAIN rows \cap DOMAIN rows' :
            /\ rows[c].status = "FAILED" => rows'[c].status = "FAILED"
            /\ rows'[c].status # "FAILED"
                 => RowRank(rows'[c].status) >= RowRank(rows[c].status)
    ]_vars

\* C29: a message that is READ never goes back to DELIVERED, whatever
\* callbacks for its provider message id arrive afterwards (so DELIVERED and
\* READ callbacks give the same final status in either order).
ReadNotOverwrittenByDelivered ==
  [][\A m \in DOMAIN messages :
       (m.status = "READ" /\ m.whatsappMessageId # NullId)
         => \A m2 \in WithWamid(messages', m.whatsappMessageId) :
              m2.status # "DELIVERED"
    ]_vars

\* the number of the campaign's rows whose status is one of these
RowsWith(statuses) == Cardinality({c \in DOMAIN rows : rows[c].status \in statuses})

\* no request on the campaign is between its read and its write, and every
\* dispatch run has ended
Quiescent ==
  /\ starting = EmptyBag /\ pausing = {} /\ editing = {} /\ deleting = {}
  /\ \A run \in DOMAIN runs : RunEnded(run)

\* C30: whenever no step for the campaign is in flight, its counters are the
\* counts of its rows: sentCount of the rows SENT, DELIVERED or READ,
\* failedCount of the rows FAILED, deliveredCount of the rows DELIVERED or
\* READ, readCount of the rows READ.
CountersMatchRows ==
  (camp # NoCampaign /\ Quiescent)
    => /\ camp.sentCount = RowsWith({"SENT", "DELIVERED", "READ"})
       /\ camp.failedCount = RowsWith({"FAILED"})
       /\ camp.deliveredCount = RowsWith({"DELIVERED", "READ"})
       /\ camp.readCount = RowsWith({"READ"})

\* the same while the storage layer has rejected nothing
CountersMatchRowsWithoutFaults == faults = MaxFaults => CountersMatchRows

\* C31: when a callback gives a message of a campaign the status DELIVERED,
\* READ or FAILED, the campaign-contact row of the same campaign and contact
\* has that status after the step, and the step updates the campaign's
\* deliveredCount, readCount or failedCount.
CallbackReachesRow ==
  [][(resp' = [op |-> "webhook", code |-> 200] /\ camp # NoCampaign)
       => \A m \in DOMAIN messages' :
            (/\ m \notin DOMAIN messages
             /\ m.campaignId = camp.id
             /\ m.contactId \in DOMAIN rows
             /\ m.status \in {"DELIVERED", "READ", "FAILED"})
              => /\ rows'[m.contactId].status = m.status
                 /\ m.status = "DELIVERED" => camp'.deliveredCount > camp.deliveredCount
                 /\ m.status = "READ" => camp'.readCount > camp.readCount
                 /\ m.status = "FAILED" => camp'.failedCount > camp.failedCount
    ]_vars

\* the statuses of a payload whose provider message id some stored message has
KnownOnly(statuses) ==
  LET Known(st) == \E m \in DOMAIN messages : m.whatsappMessageId = st.id
  IN SelectSeq(statuses, Known)

\* C32: a webhook payload that holds a status for a provider message id no
\* stored message has is answered 200; that status changes no message, and
\* the messages end as the other statuses of the payload alone leave them;
\* no campaign, campaign-contact row or counter changes.
UnknownIdIgnored ==
  [][\A statuses \in UnknownPayloads :
       Webhook("ok", statuses)
         => /\ resp' = [op |-> "webhook", code |-> 200]
            /\ KnownOnly(statuses) # statuses
            /\ messages' = HandleStatuses(messages, KnownOnly(statuses))
            /\ KnownOnly(statuses) = <<>> => messages' = messages
            /\ UNCHANGED <<camp, rows>>
    ]_vars

\* C32 witness: a webhook was answered 200 and the one stored message, sent
\* with provider message id 1, is still as it was sent: every status of the
\* payload named an id no message has
UnknownIdAnswered ==
  /\ resp = [op |-> "webhook", code |-> 200]
  /\ nextWamid = 2
  /\ \E m \in DOMAIN messages :
       /\ m.whatsappMessageId = 1 /\ m.status = "SENT"
       /\ m.deliveredAt = NullDate /\ m.readAt = NullDate /\ m.errorMessage = NULL

\* C33: the step that answers a start with success is the step that sets the
\* status RUNNING; it changes no row and leaves the run it launches at its
\* first send, so the answer does not wait for the dispatch; and a row leaves
\* PENDING only after the campaign has been set RUNNING (startedAt is set).
StartDoesNotWait ==
  [][/\ resp' = [op |-> "start", code |-> 200]
          => /\ camp'.status = "RUNNING" /\ camp'.startedAt # NULL
             /\ rows' = rows
             /\ \E s \in DOMAIN starting :
                  /\ starting' = Take(starting, s)
                  /\ \E run \in DOMAIN runs' :
                       /\ runs' = Put(runs, run)
                       /\ run.targets = SubSeq(s.contacts, 1, Min(Len(s.contacts), BatchSize))
                       /\ run.i = 1
                       /\ run.pc = IF s.contacts = <<>> THEN "count" ELSE "create"
     /\ (camp # NoCampaign /\ camp' # NoCampaign)
          => \A c \in DOMAIN rows \cap DOMAIN rows' :
               (rows[c].status = "PENDING" /\ rows'[c].status # "PENDING")
                 => camp.startedAt # NULL
    ]_vars

\* C33 witness: start has answered while every row is still PENDING
AnsweredWhilePending ==
  /\ resp = [op |-> "start", code |-> 200]
  /\ camp.status = "RUNNING"
  /\ Cardinality(DOMAIN rows) = 2
  /\ \A c \in DOMAIN rows : rows[c].status = "PENDING"
  /\ messages = EmptyBag
  /\ \E run \in DOMAIN runs : run.pc = "create" /\ run.i = 1

\* C34: when createCampaign has returned, a stored campaign has exactly
\* totalContacts campaign-contact rows, all PENDING, and its four counters
\* are 0; and a create that failed has left no campaign behind.
CreateIsAllOrNothing ==
  [][resp'.op = "create"
       => /\ camp' # NoCampaign
               => /\ Cardinality(DOMAIN rows') = camp'.totalContacts
                  /\ \A c \in DOMAIN rows' : rows'[c].status = "PENDING"
                  /\ camp'.sentCount = 0 /\ camp'.deliveredCount = 0
                  /\ camp'.readCount = 0 /\ camp'.failedCount = 0
          /\ resp'.code # 201 => camp' = NoCampaign
    ]_vars

\* C35: every campaign-contact row references a contact of the campaign's
\* tenant, and a create whose list holds a contact id that is not the
\* requesting tenant's is refused (400, or 404 when its account or template
\* is not found) and creates neither a campaign nor a row.
RowsOwnedByTenant ==
  [][/\ camp' # NoCampaign
          => \A c \in DOMAIN rows' : contacts'[c].userId = camp'.userId
     /\ \A by \in Tenants, accountFound \in BOOLEAN, templateOk \in BOOLEAN,
           contactIds \in ContactIdLists, scheduledAt \in {NULL, "later"} :
          (/\ \E i \in 1..Len(contactIds) : contacts[contactIds[i]].userId # by
           /\ CreateCampaign(by, accountFound, templateOk, contactIds, scheduledAt))
            => /\ resp' = [op |-> "create",
                           code |-> IF accountFound /\ templateOk THEN 400 ELSE 404]
               /\ camp' = NoCampaign /\ rows' = <<>> /\ nextId' = nextId
    ]_vars

\* C35 witness: a create was refused with 400 and nothing is stored, after a
\* campaign had been created and deleted
ForeignContactRefused ==
  /\ resp = [op |-> "create", code |-> 400]
  /\ camp = NoCampaign /\ rows = <<>>
  /\ nextId = 2

\* C36: an execute materializes at most RetargetTake (1000 in the code)
\* contacts whatever the number of matching contacts; once executed the
\* campaign's targetCount is at most that cap, and when the background run
\* has finished its sentCount is at most targetCount.
ExecuteIsCapped ==
  /\ \A job \in DOMAIN executing :
       job.pc # "resolve"
         => /\ Len(job.contacts) <= RetargetTake
            /\ job.pc \notin {"update"} => job.sentCount <= Len(job.contacts)
  /\ (retarget # NoCampaign /\ retarget.status # "draft")
       => retarget.targetCount <= RetargetTake
  /\ (retarget # NoCampaign /\ retarget.status = "completed")
       => retarget.sentCount <= retarget.targetCount

\* C36 witness: more contacts match than the cap admits, and the run has
\* finished with targetCount and sentCount at the cap
CappedRunCompleted ==
  /\ retarget # NoCampaign /\ retarget.status = "completed"
  /\ Cardinality(Matching(retarget.userId, retarget.filters)) > RetargetTake
  /\ retarget.targetCount = RetargetTake
  /\ retarget.sentCount = RetargetTake

\* C37: a retarget campaign is executed at most once: whatever the
\* interleaving of the execute requests on it, at most one background run is
\* launched and no contact gets two messages from it.
ExecutedAtMostOnce ==
  /\ SumCounts(executing, {job \in DOMAIN executing : "sentCount" \in DOMAIN job}) <= 1
  /\ \A c \in DOMAIN contacts : MessageCount(NullId, c) <= 1

\* C38: a completed usage reset is not undone by an in-flight increment: when
\* an incrementUsage call writes after a plan change or quota reset has
\* cleared the usage (and nothing was written since), the counter of its
\* resource becomes the call's amount, never the usage read before the reset
\* plus the amount.
ResetNotUndone ==
  [][\A job \in DOMAIN billing :
       (/\ job.pc = "write"
        /\ wasReset
        /\ user.quotaUsed = Cleared(user.quotaUsed)
        /\ IncrementWrite(job))
         => Used(user'.quotaUsed, job.resource) \in {0, job.amount}
    ]_vars

\* the tenant's plan has no limits entry for this resource
MissingLimit(resource) ==
  /\ user.planId # NULL
  /\ resource \notin DOMAIN Plans[user.planId].limits

\* C39: a usage check for a resource that has no entry in the plan's limits
\* admits the request whatever the current usage is, as for a limit of -1: it
\* answers nothing itself, hands the request on and writes nothing.
MissingLimitAdmits ==
  [][\A r \in Resources :
       (MissingLimit(r) /\ CheckUsageLimit("A", r))
         => /\ resp' = NoResponse
            /\ Admitted(billing', r) = Admitted(billing, r) + 1
            /\ UNCHANGED user
    ]_vars

\* C39 witness: on the plan without a messages entry a messages request was
\* admitted at the largest usage of the model, above the basic plan's limit
AdmittedWithoutEntry ==
  /\ MissingLimit("messages")
  /\ ~wasReset
  /\ resp = NoResponse
  /\ Used(user.quotaUsed, "messages") = MaxUsage
  /\ MaxUsage > BasicMessages
  /\ Admitted(billing, "messages") > 0

====
